---- MODULE Spec2Model ----
(***************************************************************************)
(* Model of src/index.ts: the MCP command-line chat client (class          *)
(* MCPClient and function main).  The process is single threaded; every    *)
(* `await` is a suspension point, so the position of main is one program   *)
(* counter `pc`, and every action is the continuation that runs when the   *)
(* awaited external call settles (resolves or rejects).  The promise       *)
(* returned by this.mcp.connect (line 40) is not awaited: it settles on    *)
(* its own, at any suspension point of main.                               *)
(*                                                                         *)
(* Text is a sequence of atoms (characters or short chunks).  An optional  *)
(* JavaScript value is <<>> (undefined) or <<v>> (the value v).            *)
(***************************************************************************)
EXTENDS Integers, Sequences, FiniteSets, TLC

(***************************************************************************)
(* Bounds of the model.                                                    *)
(***************************************************************************)
MaxQueries == 2
MaxCalls == 2
MaxItems == 3

VARIABLES
    argc,          \* process.argv.length
    path,          \* process.argv[2]
    pc,            \* suspension point of main / connectToServer / chatLoop / processQuery
    transport,     \* this.transport: None or Some([command, args])
    spawned,       \* a child process was spawned by the transport
    connState,     \* the un-awaited promise of this.mcp.connect
    connectCalls,  \* number of calls of this.mcp.connect
    listCalls,     \* number of calls of this.mcp.listTools
    closeCalls,    \* number of calls of this.mcp.close
    advertised,    \* toolsResult.tools of the last listTools
    tools,         \* this.tools
    connectResult, \* how connectToServer settled: "none" before the call
    rl,            \* the readline interface of chatLoop: "none", "open", "closed"
    rlCloseCalls,  \* number of calls of rl.close
    console,       \* labels of the lines written by console.log, in order
    queries,       \* number of processQuery invocations started
    message,       \* chatLoop: the line read by rl.question, None if none
    line,          \* the argument `query` of the current processQuery
    messages,      \* processQuery: messages
    finalText,     \* processQuery: finalText
    toolResults,   \* processQuery: toolResults
    firstResp,     \* processQuery: the outer `response`, None before it arrives
    idx,           \* processQuery: position of the for-of loop over tool_calls
    qstatus,       \* processQuery: "idle", "running", "returned", "threw"
    errKind,       \* which call rejected in the processQuery that threw
    ret,           \* value returned by the current processQuery, None if none
    chatLog,       \* arguments of the ollama.chat calls of the current processQuery
    toolLog,       \* arguments of the mcp.callTool calls of the current processQuery
    followResps,   \* response.message of the follow-up chat calls of the current processQuery
    pending,       \* for each external call, how many are issued and not settled
    exitCode,      \* None while the process runs, Some(code) once it has ended
    fin,           \* input of the flattening expression (lines 92-103)
    fout           \* its output

vars == <<argc, path, pc, transport, spawned, connState, connectCalls,
          listCalls, closeCalls, advertised, tools, connectResult, rl,
          rlCloseCalls, console, queries, message, line, messages, finalText,
          toolResults, firstResp, idx, qstatus, errKind, ret, chatLog, toolLog,
          followResps, pending, exitCode, fin, fout>>

(***************************************************************************)
(* Optional values and text.                                               *)
(***************************************************************************)
None == <<>>
Some(v) == <<v>>
IsSome(o) == Len(o) = 1
Get(o) == o[1]

RECURSIVE Concat(_)
Concat(ss) == IF ss = <<>> THEN <<>> ELSE Head(ss) \o Concat(Tail(ss))

\* s.endsWith(suffix)
EndsWith(s, suffix) ==
    /\ Len(s) >= Len(suffix)
    /\ SubSeq(s, Len(s) - Len(suffix) + 1, Len(s)) = suffix

Upper == <<"A","B","C","D","E","F","G","H","I","J","K","L","M",
           "N","O","P","Q","R","S","T","U","V","W","X","Y","Z">>
Lower == <<"a","b","c","d","e","f","g","h","i","j","k","l","m",
           "n","o","p","q","r","s","t","u","v","w","x","y","z">>

\* s.toLowerCase()
LowerChar(c) ==
    IF \E i \in 1..Len(Upper) : Upper[i] = c
    THEN Lower[CHOOSE i \in 1..Len(Upper) : Upper[i] = c]
    ELSE c
ToLowerCase(s) == [i \in 1..Len(s) |-> LowerChar(s[i])]

\* Array.prototype.join: the elements (optional texts; undefined joins as
\* the empty string) with sep between neighbours.
RECURSIVE Join(_, _)
Join(elems, sep) ==
    IF elems = <<>> THEN <<>>
    ELSE IF Len(elems) = 1 THEN Concat(Head(elems))
    ELSE Concat(Head(elems)) \o sep \o Join(Tail(elems), sep)

(***************************************************************************)
(* Values of the environment: command lines, input lines, what the tool    *)
(* server advertises and returns, what the chat model answers.             *)
(***************************************************************************)
Paths == { <<"s", ".", "j", "s">>,
           <<"s", ".", "p", "y">>,
           <<"s", ".", "s", "h">>,
           <<"s", ".", "j", "s", "x">>,
           <<"s", ".", "J", "S">>,
           <<"p", "y">>,
           <<>> }

Platforms == {"win32", "linux"}

quit == <<"q", "u", "i", "t">>

Lines == { quit,
           <<"Q", "U", "I", "T">>,
           <<"Q", "u", "i", "t">>,
           <<" ", "q", "u", "i", "t">>,
           <<"q", "u", "i", "t", " ">>,
           <<"q", "u", "i", "t", "x">> }

\* One element of toolsResult.tools.
AdvTool(n, d, p) == [name |-> n, description |-> d, inputSchema |-> [properties |-> p]]

AdvertisedLists ==
    { <<>>,
      << AdvTool(<<"t2">>, <<"second">>, <<>>), AdvTool(<<"t1">>, <<"first">>, <<"x">>) >> }

\* One element of response.message.tool_calls.
Directive(n, a) == [function |-> [name |-> n, arguments |-> a]]

Directives == { Directive(<<"t1">>, Some(<< [k |-> "x", v |-> "1"] >>)),
                Directive(<<"tX">>, None) }

RECURSIVE SeqsUpTo(_, _)
SeqsUpTo(S, n) ==
    IF n = 0 THEN { <<>> }
    ELSE LET shorter == SeqsUpTo(S, n - 1)
         IN  shorter \cup { Append(s, x) : s \in shorter, x \in S }

\* response.message of the first chat call of a query.
FirstResponses ==
    { [content |-> c, tool_calls |-> t] :
        c \in { Some(<<"hello">>), Some(<<>>) }, t \in { None, Some(<<>>) } }
    \cup
    { [content |-> Some(<<"hello">>), tool_calls |-> Some(c)] :
        c \in SeqsUpTo(Directives, MaxCalls) \ { <<>> } }

\* response.message of a follow-up chat call.
FollowResponses ==
    { [content |-> Some(<<"ok">>), tool_calls |-> None],
      [content |-> None,
       tool_calls |-> Some(<< Directive(<<"t1">>, None) >>)] }

\* One element of result.content.
TextItem(t) == [type |-> "text", text |-> Some(t), resource |-> None]
ResourceItem(d) == [type |-> "resource", text |-> None, resource |-> Some([data |-> d])]
OtherItem(ty, t) == [type |-> ty, text |-> t, resource |-> None]

Items == { TextItem(<<"a">>), TextItem(<<>>),
           ResourceItem(Some(<<"b">>)), ResourceItem(None),
           OtherItem("image", None), OtherItem("audio", Some(<<"c">>)) }

ExampleContent == << TextItem(<<"a">>), ResourceItem(Some(<<"b">>)), OtherItem("image", None) >>

\* Results of mcp.callTool.
ToolResults == { [content |-> ExampleContent],
                 [content |-> << TextItem(<<"c">>) >>] }

(***************************************************************************)
(* connectToServer, lines 23-60.                                           *)
(***************************************************************************)
\* Variant: the suffix is compared without regard to case.
IsSupported_AnyCase(p) ==
    \/ EndsWith(ToLowerCase(p), <<".", "j", "s">>)
    \/ EndsWith(ToLowerCase(p), <<".", "p", "y">>)

\* lines 25-27: isJs || isPy
IsSupported(p) ==
    \/ EndsWith(p, <<".", "j", "s">>)
    \/ EndsWith(p, <<".", "p", "y">>)

\* lines 30-34
Command(p, plat) ==
    IF EndsWith(p, <<".", "p", "y">>)
    THEN (IF plat = "win32" THEN "python" ELSE "python3")
    ELSE "execPath"

\* Variant: the last advertised tool is left out.
MapTools_DropsLast(adv) ==
    [ i \in 1..(Len(adv) - 1) |->
        [ type |-> "function",
          function |-> [ name |-> adv[i].name,
                         description |-> adv[i].description,
                         parameters |-> adv[i].inputSchema.properties ] ] ]

\* lines 43-52: toolsResult.tools.map(...)
MapTools(adv) ==
    [ i \in 1..Len(adv) |->
        [ type |-> "function",
          function |-> [ name |-> adv[i].name,
                         description |-> adv[i].description,
                         parameters |-> adv[i].inputSchema.properties ] ] ]

(***************************************************************************)
(* processQuery, lines 62-125.                                             *)
(***************************************************************************)
\* line 78: if (response.message.tool_calls); an array, even an empty one,
\* is truthy.
HasToolCalls(resp) == IsSome(resp.tool_calls)

\* Variant: the loop walks the directives from the last to the first.
DirectiveAt_Reversed(calls, k) == calls[Len(calls) + 1 - k]

\* line 79: the directive taken by the k-th iteration of the for-of loop.
DirectiveAt(calls, k) == calls[k]

\* JSON.stringify(toolArgs) inside the template literal of line 90.
RECURSIVE StringifyPairs(_)
StringifyPairs(ps) ==
    IF ps = <<>> THEN <<>>
    ELSE <<"\"", Head(ps).k, "\"", ":", Head(ps).v>>
         \o (IF Len(ps) > 1 THEN <<",">> ELSE <<>>)
         \o StringifyPairs(Tail(ps))

Stringify(args) ==
    IF IsSome(args) THEN <<"{">> \o StringifyPairs(Get(args)) \o <<"}">>
    ELSE <<"undefined">>

\* line 90
TraceLine(name, args) ==
    <<"[Calling tool ">> \o name \o <<" with args ">> \o Stringify(args) \o <<"]">>

\* lines 94-102: the callback of arrayResult.map
RenderItem(item) ==
    CASE item.type = "text" -> item.text
      [] item.type = "resource" -> Get(item.resource).data
      [] OTHER -> Some(<<>>)

\* Variant: the items are joined by a single newline.
Separator_SingleNewline == <<"\n">>

\* line 103: the separator of the join
Separator == <<"\n", "\n">>

\* lines 94-103
Flatten(content) ==
    Join([i \in 1..Len(content) |-> RenderItem(content[i])], Separator)

\* lines 116-118
FollowText(resp) ==
    IF IsSome(resp.content) /\ Get(resp.content) # <<>>
    THEN resp.content
    ELSE Some(<<>>)

\* Variant: the entries are joined by a blank instead of a newline.
JoinFinal_Blank(ft) == Join(ft, <<" ">>)

\* line 124
JoinFinal(ft) == Join(ft, <<"\n">>)

(***************************************************************************)
(* chatLoop, lines 127-152.                                                *)
(***************************************************************************)
\* Variant: the line is compared as typed.
IsQuit_CaseSensitive(l) == l = quit

\* line 139
IsQuit(l) == ToLowerCase(l) = quit

(***************************************************************************)
(* The external calls: each is issued by a call expression and settles     *)
(* when its promise resolves or rejects.                                   *)
(***************************************************************************)
Calls == {"connect", "listTools", "question", "chat", "tool", "close"}
NoPending == [c \in Calls |-> 0]
Issue(p, c) == [p EXCEPT ![c] = @ + 1]
Settle(p, c) == [p EXCEPT ![c] = @ - 1]

(***************************************************************************)
(* State after construction: main has not run yet.                         *)
(***************************************************************************)
queryVars == <<line, followResps, messages, finalText, toolResults, firstResp, idx,
               qstatus, errKind, ret, chatLog, toolLog>>
connVars == <<transport, spawned, connState, connectCalls, listCalls,
              advertised, tools, connectResult>>
flatVars == <<fin, fout>>

InitProcess ==
    /\ pc = "start"
    /\ transport = None
    /\ spawned = FALSE
    /\ connState = "none"
    /\ connectCalls = 0
    /\ listCalls = 0
    /\ closeCalls = 0
    /\ advertised = <<>>
    /\ tools = <<>>
    /\ connectResult = "none"
    /\ message = None
    /\ rl = "none"
    /\ rlCloseCalls = 0
    /\ console = <<>>
    /\ queries = 0
    /\ line = <<>>
    /\ messages = <<>>
    /\ finalText = <<>>
    /\ toolResults = <<>>
    /\ firstResp = None
    /\ idx = 0
    /\ qstatus = "idle"
    /\ errKind = "none"
    /\ ret = None
    /\ chatLog = <<>>
    /\ toolLog = <<>>
    /\ followResps = <<>>
    /\ pending = NoPending
    /\ exitCode = None

Init ==
    /\ argc \in {2, 3}
    /\ path \in (IF argc = 3 THEN Paths ELSE { <<>> })
    /\ InitProcess
    /\ fin = <<>>
    /\ fout = None

(***************************************************************************)
(* main, lines 159-172, and the paths of its finally block.                *)
(***************************************************************************)
\* Variant: cleanup is called and not awaited; process.exit runs at once.
EnterCleanup_NotAwaited ==
    /\ closeCalls' = closeCalls + 1
    /\ pc' = "exited"

\* lines 168-169: the finally block of main calls cleanup, which calls
\* this.mcp.close (line 155) and awaits it.
EnterCleanup ==
    /\ closeCalls' = closeCalls + 1
    /\ pc' = "cleanup_wait"

\* lines 160-163
MainUsage ==
    /\ pc = "start"
    /\ UNCHANGED pending
    /\ argc < 3
    /\ console' = Append(console, "usage")
    /\ pc' = "returned"
    /\ UNCHANGED <<argc, path, closeCalls, rl, rlCloseCalls, queries, message,
                   exitCode>>
    /\ UNCHANGED <<connVars, queryVars, flatVars>>

\* lines 164-166, 24-29, 56-59, 168-169: the suffix check throws, the catch
\* block logs and rethrows, main's finally block starts the cleanup.
ConnectUnsupported ==
    /\ pc = "start"
    /\ pending' = Issue(pending, "close")
    /\ argc >= 3
    /\ ~IsSupported(path)
    /\ connectResult' = "unsupported_script"
    /\ console' = Append(console, "failed_connect")
    /\ EnterCleanup
    /\ UNCHANGED <<argc, path, rl, rlCloseCalls, queries, message, exitCode>>
    /\ UNCHANGED <<transport, spawned, connState, connectCalls, listCalls,
                   advertised, tools>>
    /\ UNCHANGED <<queryVars, flatVars>>

\* lines 164-166, 24-42: the transport is made, connect is called and not
\* awaited, listTools is called and awaited.
ConnectStart ==
    /\ pc = "start"
    /\ pending' = Issue(Issue(pending, "connect"), "listTools")
    /\ argc >= 3
    /\ IsSupported(path)
    /\ \E plat \in Platforms :
          transport' = Some([command |-> Command(path, plat), args |-> <<path>>])
    /\ connectCalls' = connectCalls + 1
    /\ spawned' = TRUE
    /\ connState' = "pending"
    /\ listCalls' = listCalls + 1
    /\ connectResult' = "pending"
    /\ pc' = "listTools_wait"
    /\ UNCHANGED <<argc, path, closeCalls, advertised, tools, rl, rlCloseCalls,
                   console, queries, message, exitCode>>
    /\ UNCHANGED <<queryVars, flatVars>>

\* lines 42-55, 167, 128-138: listTools resolves; the descriptors are stored
\* and listed; chatLoop opens the readline interface and asks for a line.
ListToolsResolve ==
    /\ pc = "listTools_wait"
    /\ pending' = Issue(Settle(pending, "listTools"), "question")
    /\ \E adv \in AdvertisedLists :
          /\ advertised' = adv
          /\ tools' = MapTools(adv)
    /\ connectResult' = "ok"
    /\ rl' = "open"
    /\ console' = console \o <<"connected", "started", "help">>
    /\ pc' = "prompt"
    /\ UNCHANGED <<argc, path, transport, spawned, connState, connectCalls,
                   listCalls, closeCalls, rlCloseCalls, queries, message,
                   exitCode>>
    /\ UNCHANGED <<queryVars, flatVars>>

\* lines 42, 56-59, 168-169: listTools rejects.
ListToolsReject ==
    /\ pc = "listTools_wait"
    /\ pending' = Issue(Settle(pending, "listTools"), "close")
    /\ connectResult' = "list_failed"
    /\ console' = Append(console, "failed_connect")
    /\ EnterCleanup
    /\ UNCHANGED <<argc, path, rl, rlCloseCalls, queries, message, exitCode>>
    /\ UNCHANGED <<transport, spawned, connState, connectCalls, listCalls,
                   advertised, tools>>
    /\ UNCHANGED <<queryVars, flatVars>>

(***************************************************************************)
(* chatLoop and processQuery: the continuations of each await.             *)
(***************************************************************************)
\* Variant: a directive whose name is not among the stored descriptors is
\* refused by the client: nothing is sent and the query fails.
StartDirective_Validates(calls, k) ==
    IF \E i \in 1..Len(tools) : tools[i].function.name = calls[k].function.name
    THEN /\ toolLog' = Append(toolLog, calls[k].function)
         /\ idx' = k
         /\ pending' = Issue(Settle(pending, "chat"), "tool")
         /\ pc' = "tool_wait"
         /\ UNCHANGED <<ret, qstatus, console>>
    ELSE /\ toolLog' = toolLog
         /\ idx' = k
         /\ qstatus' = "threw"
         /\ ret' = ret
         /\ console' = Append(console, "error")
         /\ pending' = Issue(Settle(pending, "chat"), "question")
         /\ pc' = "prompt"

\* Variant: the calls of directive k and of all later directives are issued
\* together, none awaited before the next.
StartDirective_AllAtOnce(calls, k) ==
    /\ toolLog' = toolLog \o [i \in 1..(Len(calls) - k + 1) |-> calls[k + i - 1].function]
    /\ idx' = k
    /\ pending' = [Settle(pending, "chat") EXCEPT !["tool"] = @ + Len(calls) - k + 1]
    /\ pc' = "tool_wait"
    /\ UNCHANGED <<ret, qstatus, console>>

\* lines 79-87: the for-of loop takes directive k and calls mcp.callTool.
StartDirective(calls, k) ==
    /\ toolLog' = Append(toolLog, DirectiveAt(calls, k).function)
    /\ idx' = k
    /\ pending' = Issue(Settle(pending, "chat"), "tool")
    /\ pc' = "tool_wait"
    /\ UNCHANGED <<ret, qstatus, console>>

\* lines 124, 143-144, 138: processQuery returns the joined text, chatLoop
\* prints it and asks for the next line.
ReturnText(ft) ==
    /\ ret' = Some(JoinFinal(ft))
    /\ qstatus' = "returned"
    /\ console' = Append(console, "response")
    /\ pending' = Issue(Settle(pending, "chat"), "question")
    /\ pc' = "prompt"
    /\ UNCHANGED <<toolLog, idx>>

\* Variant: the loop body has no try: the rejection leaves the loop through
\* its finally block and main through its finally block.
CatchQueryError_Escapes(kind) ==
    /\ qstatus' = "threw"
    /\ errKind' = kind
    /\ console' = console
    /\ rl' = "closed"
    /\ rlCloseCalls' = rlCloseCalls + 1
    /\ closeCalls' = closeCalls + 1
    /\ pending' = Issue(Settle(pending, kind), "close")
    /\ pc' = "cleanup_wait"

\* lines 145-147, 138: a rejection inside processQuery leaves processQuery,
\* is caught by the try of the loop body and printed; the loop goes on.
CatchQueryError(kind) ==
    /\ qstatus' = "threw"
    /\ errKind' = kind
    /\ console' = Append(console, "error")
    /\ pending' = Issue(Settle(pending, kind), "question")
    /\ pc' = "prompt"
    /\ UNCHANGED <<rl, rlCloseCalls, closeCalls>>

\* The record of the processQuery invocation of the current loop iteration
\* is dropped when the loop is left.
DropQuery ==
    /\ line' = <<>>
    /\ messages' = <<>>
    /\ finalText' = <<>>
    /\ toolResults' = <<>>
    /\ firstResp' = None
    /\ idx' = 0
    /\ qstatus' = "idle"
    /\ errKind' = "none"
    /\ ret' = None
    /\ chatLog' = <<>>
    /\ toolLog' = <<>>
    /\ followResps' = <<>>

\* lines 138-140, 149-150, 168-169: a quit line breaks the loop; the finally
\* block closes the readline interface; main's finally starts the cleanup.
ReadQuit ==
    /\ pc = "prompt"
    /\ pending' = Issue(Settle(pending, "question"), "close")
    /\ \E l \in Lines :
          /\ IsQuit(l)
          /\ message' = Some(l)
    /\ rl' = "closed"
    /\ rlCloseCalls' = rlCloseCalls + 1
    /\ EnterCleanup
    /\ DropQuery
    /\ UNCHANGED <<argc, path, console, queries, exitCode>>
    /\ UNCHANGED <<connVars, flatVars>>

\* Variant: the history is kept by the client and each query is appended to
\* it instead of starting a new one.
ReadQuery_KeepsHistory ==
    /\ pc = "prompt"
    /\ queries < MaxQueries
    /\ \E l \in Lines :
          /\ ~IsQuit(l)
          /\ message' = Some(l)
          /\ line' = l
          /\ messages' = Append(messages, [role |-> "user", content |-> l])
    /\ queries' = queries + 1
    /\ chatLog' = << [messages |-> messages', tools |-> Some(tools)] >>
    /\ toolLog' = <<>>
    /\ followResps' = <<>>
    /\ pending' = Issue(Settle(pending, "question"), "chat")
    /\ finalText' = <<>>
    /\ toolResults' = <<>>
    /\ firstResp' = None
    /\ idx' = 0
    /\ qstatus' = "running"
    /\ errKind' = "none"
    /\ ret' = None
    /\ pc' = "chat1_wait"
    /\ UNCHANGED <<argc, path, closeCalls, rl, rlCloseCalls, console, exitCode>>
    /\ UNCHANGED <<connVars, flatVars>>

\* lines 138-143, 63-75: any other line starts processQuery, which builds the
\* history and issues the first chat call, with the tools attached.
ReadQuery ==
    /\ pc = "prompt"
    /\ queries < MaxQueries
    /\ \E l \in Lines :
          /\ ~IsQuit(l)
          /\ message' = Some(l)
          /\ line' = l
          /\ messages' = << [role |-> "user", content |-> l] >>
    /\ queries' = queries + 1
    /\ chatLog' = << [messages |-> messages', tools |-> Some(tools)] >>
    /\ toolLog' = <<>>
    /\ followResps' = <<>>
    /\ pending' = Issue(Settle(pending, "question"), "chat")
    /\ finalText' = <<>>
    /\ toolResults' = <<>>
    /\ firstResp' = None
    /\ idx' = 0
    /\ qstatus' = "running"
    /\ errKind' = "none"
    /\ ret' = None
    /\ pc' = "chat1_wait"
    /\ UNCHANGED <<argc, path, closeCalls, rl, rlCloseCalls, console, exitCode>>
    /\ UNCHANGED <<connVars, flatVars>>

\* Variant: the loop has no finally block, so an error that leaves it does
\* not close the readline interface.
ReadReject_NoFinally ==
    /\ pc = "prompt"
    /\ pending' = Issue(Settle(pending, "question"), "close")
    /\ message' = None
    /\ rl' = rl
    /\ rlCloseCalls' = rlCloseCalls
    /\ EnterCleanup
    /\ DropQuery
    /\ UNCHANGED <<argc, path, console, queries, exitCode>>
    /\ UNCHANGED <<connVars, flatVars>>

\* lines 138, 149-150, 168-169: rl.question rejects; the error leaves the
\* loop through the finally block and main through its finally block.
ReadReject ==
    /\ pc = "prompt"
    /\ pending' = Issue(Settle(pending, "question"), "close")
    /\ message' = None
    /\ rl' = "closed"
    /\ rlCloseCalls' = rlCloseCalls + 1
    /\ EnterCleanup
    /\ DropQuery
    /\ UNCHANGED <<argc, path, console, queries, exitCode>>
    /\ UNCHANGED <<connVars, flatVars>>

\* lines 70-78, 121-124: the first response has no tool_calls.
Chat1Text ==
    /\ pc = "chat1_wait"
    /\ \E resp \in FirstResponses :
          /\ ~HasToolCalls(resp)
          /\ firstResp' = Some(resp)
          /\ finalText' = << resp.content >>
    /\ ReturnText(finalText')
    /\ UNCHANGED <<argc, path, closeCalls, rl, rlCloseCalls, queries, message,
                   exitCode, line, followResps, messages, toolResults, errKind, chatLog>>
    /\ UNCHANGED <<connVars, flatVars>>

\* lines 70-87, 124: the first response has tool_calls; the loop starts with
\* the first directive, or is left at once when the array is empty.
Chat1Tools ==
    /\ pc = "chat1_wait"
    /\ \E resp \in FirstResponses :
          /\ HasToolCalls(resp)
          /\ firstResp' = Some(resp)
          /\ IF Get(resp.tool_calls) # <<>>
             THEN StartDirective(Get(resp.tool_calls), 1)
             ELSE ReturnText(finalText)
    /\ UNCHANGED <<argc, path, closeCalls, rl, rlCloseCalls, queries, message,
                   exitCode, line, followResps, messages, finalText, toolResults, errKind, chatLog>>
    /\ UNCHANGED <<connVars, flatVars>>

\* line 70 rejects.
Chat1Reject ==
    /\ pc = "chat1_wait"
    /\ CatchQueryError("chat")
    /\ UNCHANGED <<argc, path, queries, message, exitCode, line, followResps, messages, finalText,
                   toolResults, firstResp, idx, ret, chatLog, toolLog>>
    /\ UNCHANGED <<connVars, flatVars>>

\* Variant: the follow-up chat call is issued before the tool message is
\* pushed, so it is passed the history without it.
ToolResolve_ChatBeforePush ==
    /\ pc = "tool_wait"
    /\ pending' = Issue(Settle(pending, "tool"), "chat")
    /\ \E result \in ToolResults :
          /\ toolResults' = Append(toolResults, result)
          /\ messages' = Append(messages,
                                [role |-> "tool", content |-> Flatten(result.content)])
    /\ LET d == toolLog[Len(toolLog)]
       IN  finalText' = Append(finalText, Some(TraceLine(d.name, d.arguments)))
    /\ chatLog' = Append(chatLog, [messages |-> messages, tools |-> None])
    /\ pc' = "chat2_wait"
    /\ UNCHANGED <<argc, path, closeCalls, rl, rlCloseCalls, console, queries,
                   message, exitCode, line, followResps, firstResp, idx, qstatus, errKind,
                   ret, toolLog>>
    /\ UNCHANGED <<connVars, flatVars>>

\* Variant: the follow-up chat call is given the tool descriptors too.
ToolResolve_FollowUpWithTools ==
    /\ pc = "tool_wait"
    /\ pending' = Issue(Settle(pending, "tool"), "chat")
    /\ \E result \in ToolResults :
          /\ toolResults' = Append(toolResults, result)
          /\ messages' = Append(messages,
                                [role |-> "tool", content |-> Flatten(result.content)])
    /\ LET d == toolLog[Len(toolLog)]
       IN  finalText' = Append(finalText, Some(TraceLine(d.name, d.arguments)))
    /\ chatLog' = Append(chatLog, [messages |-> messages', tools |-> Some(tools)])
    /\ pc' = "chat2_wait"
    /\ UNCHANGED <<argc, path, closeCalls, rl, rlCloseCalls, console, queries,
                   message, exitCode, line, followResps, firstResp, idx, qstatus, errKind,
                   ret, toolLog>>
    /\ UNCHANGED <<connVars, flatVars>>

\* lines 84-114: callTool resolves; the result is recorded, the trace line
\* pushed, the content flattened and appended to the history as a tool
\* message, and the follow-up chat call issued without tools.
ToolResolve ==
    /\ pc = "tool_wait"
    /\ pending' = Issue(Settle(pending, "tool"), "chat")
    /\ \E result \in ToolResults :
          /\ toolResults' = Append(toolResults, result)
          /\ messages' = Append(messages,
                                [role |-> "tool", content |-> Flatten(result.content)])
    /\ LET d == toolLog[Len(toolLog)]
       IN  finalText' = Append(finalText, Some(TraceLine(d.name, d.arguments)))
    /\ chatLog' = Append(chatLog, [messages |-> messages', tools |-> None])
    /\ pc' = "chat2_wait"
    /\ UNCHANGED <<argc, path, closeCalls, rl, rlCloseCalls, console, queries,
                   message, exitCode, line, followResps, firstResp, idx, qstatus, errKind,
                   ret, toolLog>>
    /\ UNCHANGED <<connVars, flatVars>>

\* Variant: the rejection of callTool is caught inside the for-of loop and
\* noted, and the iteration goes on to its follow-up chat call.
ToolReject_Resumes ==
    /\ pc = "tool_wait"
    /\ pending' = Issue(Settle(pending, "tool"), "chat")
    /\ qstatus' = "threw"
    /\ errKind' = "tool"
    /\ console' = Append(console, "error")
    /\ chatLog' = Append(chatLog, [messages |-> messages, tools |-> None])
    /\ pc' = "chat2_wait"
    /\ UNCHANGED <<argc, path, closeCalls, rl, rlCloseCalls, queries, message,
                   exitCode, line, followResps, messages, finalText, toolResults, firstResp,
                   idx, ret, toolLog>>
    /\ UNCHANGED <<connVars, flatVars>>

\* line 84 rejects.
ToolReject ==
    /\ pc = "tool_wait"
    /\ CatchQueryError("tool")
    /\ UNCHANGED <<argc, path, queries, message, exitCode, line, followResps, messages, finalText,
                   toolResults, firstResp, idx, ret, chatLog, toolLog>>
    /\ UNCHANGED <<connVars, flatVars>>

\* Variant: the text of the follow-up response is pushed to the history as
\* an assistant message.
Chat2Resolve_KeepsAnswer ==
    /\ pc = "chat2_wait"
    /\ \E resp \in FollowResponses :
          /\ followResps' = Append(followResps, resp)
          /\ finalText' = Append(finalText, FollowText(resp))
          /\ messages' = Append(messages, [role |-> "assistant",
                                           content |-> Get(FollowText(resp))])
    /\ LET calls == Get(Get(firstResp).tool_calls)
       IN  IF idx < Len(calls)
           THEN StartDirective(calls, idx + 1)
           ELSE ReturnText(finalText')
    /\ UNCHANGED <<argc, path, closeCalls, rl, rlCloseCalls, queries, message,
                   exitCode, line, toolResults, firstResp, errKind,
                   chatLog>>
    /\ UNCHANGED <<connVars, flatVars>>

\* lines 110-119, 79, 124: the follow-up response arrives; its text is
\* pushed; the loop takes the next directive or processQuery returns.
Chat2Resolve ==
    /\ pc = "chat2_wait"
    /\ \E resp \in FollowResponses :
          /\ followResps' = Append(followResps, resp)
          /\ finalText' = Append(finalText, FollowText(resp))
    /\ LET calls == Get(Get(firstResp).tool_calls)
       IN  IF idx < Len(calls)
           THEN StartDirective(calls, idx + 1)
           ELSE ReturnText(finalText')
    /\ UNCHANGED <<argc, path, closeCalls, rl, rlCloseCalls, queries, message,
                   exitCode, line, messages, toolResults, firstResp, errKind,
                   chatLog>>
    /\ UNCHANGED <<connVars, flatVars>>

\* line 110 rejects.
Chat2Reject ==
    /\ pc = "chat2_wait"
    /\ CatchQueryError("chat")
    /\ UNCHANGED <<argc, path, queries, message, exitCode, line, followResps, messages, finalText,
                   toolResults, firstResp, idx, ret, chatLog, toolLog>>
    /\ UNCHANGED <<connVars, flatVars>>

(***************************************************************************)
(* The end of main and the promise nobody awaits.                          *)
(***************************************************************************)
\* A rejection no handler takes: the runtime reports it and ends the process
\* with code 1.  Nothing of the program runs afterwards, and the record of
\* the query it was processing is gone with it.
UnhandledRejection ==
    /\ pc' = "crashed"
    /\ exitCode' = Some(1)
    /\ message' = None
    /\ pending' = NoPending
    /\ DropQuery

\* lines 169-170: close resolves, process.exit(0).
CloseResolve ==
    /\ pc = "cleanup_wait"
    /\ pending' = Settle(pending, "close")
    /\ pc' = "exited"
    /\ exitCode' = Some(0)
    /\ UNCHANGED <<argc, path, closeCalls, rl, rlCloseCalls, console, queries,
                   message>>
    /\ UNCHANGED <<connVars, queryVars, flatVars>>

\* line 169: close rejects inside the finally block: line 170 is skipped and
\* the promise of main() (line 174) rejects with no handler.
CloseReject ==
    /\ pc = "cleanup_wait"
    /\ UnhandledRejection
    /\ UNCHANGED <<argc, path, closeCalls, rl, rlCloseCalls, console, queries>>
    /\ UNCHANGED <<connVars, flatVars>>

\* main is suspended in an await.
Suspended == pc \in {"listTools_wait", "prompt", "chat1_wait", "tool_wait",
                     "chat2_wait", "cleanup_wait"}

\* line 40: the promise of this.mcp.connect resolves.
ConnectResolve ==
    /\ Suspended
    /\ pending' = Settle(pending, "connect")
    /\ connState = "pending"
    /\ connState' = "connected"
    /\ UNCHANGED <<argc, path, pc, transport, spawned, connectCalls, listCalls,
                   closeCalls, advertised, tools, connectResult, rl,
                   rlCloseCalls, console, queries, message, exitCode>>
    /\ UNCHANGED <<queryVars, flatVars>>

\* line 40: the promise of this.mcp.connect rejects; it has no handler.
ConnectReject ==
    /\ Suspended
    /\ connState = "pending"
    /\ connState' = "failed"
    /\ UnhandledRejection
    /\ UNCHANGED <<argc, path, transport, spawned, connectCalls, listCalls,
                   closeCalls, advertised, tools, connectResult, rl,
                   rlCloseCalls, console, queries, flatVars>>

Next ==
    \/ MainUsage
    \/ ConnectUnsupported
    \/ ConnectStart
    \/ ListToolsResolve
    \/ ListToolsReject
    \/ ReadQuit
    \/ ReadQuery
    \/ ReadReject
    \/ Chat1Text
    \/ Chat1Tools
    \/ Chat1Reject
    \/ ToolResolve
    \/ ToolReject
    \/ Chat2Resolve
    \/ Chat2Reject
    \/ CloseResolve
    \/ CloseReject
    \/ ConnectResolve
    \/ ConnectReject

Spec == Init /\ [][Next]_vars

(***************************************************************************)
(* The program, started with a server script it accepts, when every chat   *)
(* call and every tool call that was issued settles (resolves or rejects)  *)
(* in the end.                                                             *)
(***************************************************************************)
InitLive ==
    /\ argc = 3
    /\ path = <<"s", ".", "j", "s">>
    /\ InitProcess
    /\ fin = <<>>
    /\ fout = None

NextLive ==
    \/ ConnectStart
    \/ ListToolsResolve
    \/ ListToolsReject
    \/ ReadQuit
    \/ ReadQuery
    \/ ReadReject
    \/ Chat1Text
    \/ Chat1Tools
    \/ Chat1Reject
    \/ ToolResolve
    \/ ToolReject
    \/ Chat2Resolve
    \/ Chat2Reject
    \/ CloseResolve
    \/ CloseReject
    \/ ConnectResolve
    \/ ConnectReject

ChatSettles == Chat1Text \/ Chat1Tools \/ Chat1Reject \/ Chat2Resolve \/ Chat2Reject
ToolSettles == ToolResolve \/ ToolReject

SpecLive == InitLive /\ [][NextLive]_vars /\ WF_vars(ChatSettles) /\ WF_vars(ToolSettles)

(***************************************************************************)
(* The flattening expression of lines 92-103 on its own: the input is any  *)
(* result.content of up to MaxItems items.                                 *)
(***************************************************************************)
InitFlat ==
    /\ argc = 3
    /\ path = <<>>
    /\ InitProcess
    /\ fin \in SeqsUpTo(Items, MaxItems)
    /\ fout = None

\* lines 92-103
FlattenResult ==
    /\ fout = None
    /\ UNCHANGED pending
    /\ fout' = Some(Flatten(fin))
    /\ UNCHANGED <<argc, path, pc, closeCalls, rl, rlCloseCalls, console,
                   queries, message, exitCode, fin>>
    /\ UNCHANGED <<connVars, queryVars>>

NextFlat == FlattenResult

SpecFlat == InitFlat /\ [][NextFlat]_vars

(***************************************************************************)
(* Properties.                                                             *)
(***************************************************************************)
\* The directives of the first response of the current processQuery.
FirstCalls ==
    IF IsSome(firstResp) /\ IsSome(Get(firstResp).tool_calls)
    THEN Get(Get(firstResp).tool_calls)
    ELSE <<>>

\* The tool message the history holds for the j-th result of the batch.
ToolMessage(j) == [role |-> "tool", content |-> Flatten(toolResults[j].content)]

\* C1: with N >= 1 directives in the first response, the k-th callTool carries
\* the name and arguments of the k-th directive, the k-th follow-up chat call
\* is passed a history holding the tool messages of directives 1..k, and a
\* processQuery that returns has made exactly N callTool calls and exactly N
\* follow-up chat calls.
C1_ToolCallsInOrder ==
    LET N == Len(FirstCalls)
    IN  (qstatus \in {"running", "returned", "threw"} /\ N >= 1) =>
          /\ Len(toolLog) <= N
          /\ \A k \in 1..Len(toolLog) :
                /\ toolLog[k].name = FirstCalls[k].function.name
                /\ toolLog[k].arguments = FirstCalls[k].function.arguments
          /\ Len(chatLog) - 1 <= Len(toolLog)
          /\ \A k \in 1..(Len(chatLog) - 1) :
                LET h == chatLog[k + 1].messages
                IN  /\ Len(h) >= k + 1
                    /\ \A j \in 1..k : h[j + 1] = ToolMessage(j)
          /\ qstatus = "returned" => (Len(toolLog) = N /\ Len(chatLog) = N + 1)

\* A query that returned after two different directives.
C1_Witness ==
    /\ qstatus = "returned"
    /\ Len(FirstCalls) = 2
    /\ FirstCalls[1] # FirstCalls[2]
    /\ Len(toolLog) = 2
    /\ toolResults[1] # toolResults[2]

\* C2: when the first response has no directive (tool_calls absent or empty)
\* processQuery calls no tool, makes no follow-up chat call and returns
\* exactly the text content of the response.
C2_NoDirectiveReturnsContent ==
    (qstatus = "returned" /\ IsSome(firstResp) /\ FirstCalls = <<>>) =>
        /\ toolLog = <<>>
        /\ Len(chatLog) = 1
        /\ ret = Some(Concat(Get(firstResp).content))

\* C2, where it holds: tool_calls absent.
C2_AbsentReturnsContent ==
    (qstatus = "returned" /\ IsSome(firstResp)
        /\ Get(firstResp).tool_calls = None) =>
        /\ toolLog = <<>>
        /\ Len(chatLog) = 1
        /\ ret = Some(Concat(Get(firstResp).content))

\* C3: a chat or tool failure inside processQuery is caught by chatLoop: an
\* error line is printed, the next state is the prompt, the readline
\* interface stays open, cleanup is not run and the process does not exit.
C3_QueryFailureCaught ==
    [][ (qstatus = "running" /\ qstatus' = "threw") =>
          /\ pc' = "prompt"
          /\ console' = Append(console, "error")
          /\ rl' = "open"
          /\ rlCloseCalls' = rlCloseCalls
          /\ closeCalls' = closeCalls
          /\ exitCode' = None ]_vars

\* A query is being processed after an earlier one failed.
C3_Witness ==
    /\ pc = "chat1_wait"
    /\ queries = 2
    /\ console[Len(console)] = "error"

\* C4: when the callTool of directive k fails, no further tool or chat call
\* is made for the query (k tool calls, the first chat call and k-1
\* follow-ups were made) and processQuery returns nothing: the entries
\* collected for directives 1..k-1 are not delivered, an error line is.
C4_ToolFailureAbortsQuery ==
    (qstatus = "threw" /\ errKind = "tool") =>
        /\ Len(toolLog) = Len(toolResults) + 1
        /\ Len(chatLog) = Len(toolResults) + 1
        /\ Len(toolLog) <= Len(FirstCalls)
        /\ ret = None
        /\ pc = "prompt"
        /\ console[Len(console)] = "error"

\* The second directive of a batch failed after the first was processed.
C4_Witness ==
    /\ qstatus = "threw"
    /\ errKind = "tool"
    /\ Len(FirstCalls) = 2
    /\ Len(toolLog) = 2
    /\ Len(finalText) = 2

\* The last three atoms of p are a, b, c.
EndsIn(p, a, b, c) ==
    /\ Len(p) >= 3
    /\ p[Len(p) - 2] = a
    /\ p[Len(p) - 1] = b
    /\ p[Len(p)] = c

\* C5: for a path ending neither in .js nor in .py connectToServer fails with
\* the unsupported-script error; no transport is made, no child is spawned,
\* and neither connect nor listTools is called.
C5_UnsupportedSuffixFailsFast ==
    (argc >= 3 /\ pc # "start"
        /\ ~EndsIn(path, ".", "j", "s") /\ ~EndsIn(path, ".", "p", "y")) =>
        /\ connectResult = "unsupported_script"
        /\ transport = None
        /\ ~spawned
        /\ connectCalls = 0
        /\ listCalls = 0
        /\ console[1] = "failed_connect"

\* A run with an unsupported path has gone through to its end.
C5_Witness ==
    /\ pc = "exited"
    /\ path = <<"s", ".", "J", "S">>
    /\ connectResult = "unsupported_script"

\* C6: when the transport connection or the tool listing fails, the failure
\* is logged by connectToServer, connectToServer fails with it, chatLoop is
\* never entered and no second connect or listTools call is made.
C6_ConnectionFailureLoggedAndFatal ==
    (connState = "failed" \/ connectResult = "list_failed") =>
        /\ \E i \in 1..Len(console) : console[i] = "failed_connect"
        /\ connectResult \notin {"pending", "ok"}
        /\ rl = "none"
        /\ connectCalls = 1
        /\ listCalls = 1

\* The process has ended: by process.exit (line 170) or by the runtime.
Ended == pc \in {"exited", "crashed"}

\* C7: mcp.close is called exactly once in every run that made the transport
\* and spawned the child, after the chat loop has ended, however many queries
\* were processed and however the loop ended; never while a query is being
\* processed, never twice.
C7_ReleasedExactlyOnce ==
    /\ closeCalls <= 1
    /\ closeCalls = 1 => (rl # "open" /\ qstatus # "running")
    /\ (spawned /\ Ended) => closeCalls = 1

\* The line is q, u, i, t in any mix of upper and lower case.
IsQuitWord(l) ==
    /\ Len(l) = 4
    /\ l[1] \in {"q", "Q"}
    /\ l[2] \in {"u", "U"}
    /\ l[3] \in {"i", "I"}
    /\ l[4] \in {"t", "T"}

\* C8: a line read at the prompt ends the loop exactly when it is the word
\* quit in any case; then processQuery is not invoked and no call is issued
\* (the readline interface is closed and the cleanup started); any other
\* line starts processQuery and leaves the loop running.
C8_QuitEndsLoop ==
    [][ (pc = "prompt" /\ pc' \notin {"prompt", "crashed"} /\ IsSome(message')) =>
          IF IsQuitWord(Get(message'))
          THEN /\ pc' = "cleanup_wait"
               /\ rl' = "closed"
               /\ queries' = queries
               /\ qstatus' # "running"
               /\ chatLog' = <<>>
               /\ toolLog' = <<>>
          ELSE /\ pc' = "chat1_wait"
               /\ rl' = "open"
               /\ queries' = queries + 1
               /\ qstatus' = "running"
               /\ line' = Get(message') ]_vars

\* The loop was ended by QUIT, and a query was made of "quit " before.
C8_Witness ==
    /\ pc = "cleanup_wait"
    /\ message = Some(<<"Q", "U", "I", "T">>)
    /\ queries >= 1

\* The rendering of one item: the text of a text item, the data of a
\* resource item (nothing when it has none), nothing for any other kind.
Rendering(item) ==
    IF item.type = "text" THEN Concat(item.text)
    ELSE IF item.type = "resource" THEN Concat(Get(item.resource).data)
    ELSE <<>>

\* The position in the flattened text just before the rendering of item i.
RECURSIVE Offset(_, _)
Offset(content, i) ==
    IF i = 1 THEN 0
    ELSE Offset(content, i - 1) + Len(Rendering(content[i - 1])) + 2

\* C9: the flattened text of k items is the k renderings in order, with
\* exactly one "\n\n" between neighbours (k-1 in all); the items text "a",
\* resource data "b", unknown give "a\n\nb\n\n", and no item gives "".
C9_FlattenJoinsRenderings ==
    IsSome(fout) =>
        LET out == Get(fout)
            k == Len(fin)
        IN  /\ k = 0 => out = <<>>
            /\ k >= 1 => Len(out) = Offset(fin, k) + Len(Rendering(fin[k]))
            /\ \A i \in 1..k :
                  SubSeq(out, Offset(fin, i) + 1,
                         Offset(fin, i) + Len(Rendering(fin[i]))) = Rendering(fin[i])
            /\ \A i \in 2..k :
                  /\ out[Offset(fin, i) - 1] = "\n"
                  /\ out[Offset(fin, i)] = "\n"
            /\ fin = ExampleContent => out = <<"a", "\n", "\n", "b", "\n", "\n">>

\* The example of the specification has been flattened.
C9_Witness ==
    /\ fin = ExampleContent
    /\ fout = Some(<<"a", "\n", "\n", "b", "\n", "\n">>)

\* C10: after a successful connectToServer this.tools has the length, the
\* names and the order of the advertised list, and it is the list attached
\* to the first chat call of every query.
C10_ToolsAsAdvertised ==
    connectResult = "ok" =>
        /\ Len(tools) = Len(advertised)
        /\ \A i \in 1..Len(advertised) : tools[i].function.name = advertised[i].name
        /\ chatLog # <<>> =>
              /\ chatLog[1].tools = Some(tools)
              /\ Len(Get(chatLog[1].tools)) = Len(advertised)
              /\ \A i \in 1..Len(advertised) :
                    Get(chatLog[1].tools)[i].function.name = advertised[i].name

\* The second query of a session with two advertised tools is under way.
C10_Witness ==
    /\ connectResult = "ok"
    /\ Len(advertised) = 2
    /\ queries = 2
    /\ pc = "chat1_wait"

\* C11: within a batch directive k is fully processed before directive k+1
\* begins.  While the callTool of directive k is in flight the tool calls and
\* the follow-up chat calls of directives 1..k-1 have all returned and the
\* history holds no message for k yet; while the follow-up chat call of k is
\* in flight its tool call has returned and its tool message is the last of
\* the history the call was passed.
C11_DirectivesOneAtATime ==
    LET k == Len(toolLog)
    IN  /\ pc = "tool_wait" =>
              /\ k >= 1
              /\ Len(toolResults) = k - 1
              /\ Len(chatLog) = k
              /\ Len(followResps) = k - 1
              /\ Len(messages) = k
        /\ pc = "chat2_wait" =>
              /\ k >= 1
              /\ Len(toolResults) = k
              /\ Len(chatLog) = k + 1
              /\ Len(followResps) = k - 1
              /\ Len(messages) = k + 1
              /\ messages[k + 1] = ToolMessage(k)
              /\ chatLog[k + 1].messages = messages

\* The tool call of the second directive of a batch is in flight.
C11_Witness ==
    /\ pc = "tool_wait"
    /\ Len(toolLog) = 2
    /\ Len(followResps) = 1

\* C12: at most one chat call, tool call or line read is in flight at any
\* time, and no line is read while a query is being processed.
C12_OneCallInFlight ==
    /\ pending["chat"] + pending["tool"] + pending["question"] <= 1
    /\ pending["question"] = 1 => qstatus # "running"
    /\ qstatus = "running" => pending["chat"] + pending["tool"] = 1

\* A tool call is in flight, next to the connect promise nobody awaits.
C12_Witness ==
    /\ pending["tool"] = 1
    /\ pending["connect"] = 1
    /\ Len(toolLog) = 2

\* C13: the history passed to the first chat call of every processQuery is
\* exactly one message, the user message with the line just read; nothing of
\* an earlier query, whether it returned or threw, is in it.
C13_FreshHistoryPerQuery ==
    chatLog # <<>> =>
        /\ IsSome(message)
        /\ chatLog[1].messages = << [role |-> "user", content |-> Get(message)] >>

\* The first chat call of a second query, after a first query that returned.
C13_Witness ==
    /\ queries = 2
    /\ pc = "chat1_wait"
    /\ Len(chatLog) = 1
    /\ \E i \in 1..Len(console) : console[i] = "response"

\* What the template literal of the trace line shows for the arguments: the
\* JSON text of the object, and "undefined" when there are no arguments.
ArgsText(args) ==
    IF args = None THEN <<"undefined">>
    ELSE IF Get(args) = <<>> THEN <<"{", "}">>
    ELSE <<"{", "\"", Get(args)[1].k, "\"", ":", Get(args)[1].v, "}">>

\* Entry j of the returned text: the trace line of directive (j+1)/2 when j
\* is odd, the content of follow-up response j/2 (nothing if it has none)
\* when j is even.
Entry(j) ==
    IF j % 2 = 1
    THEN LET f == FirstCalls[(j + 1) \div 2].function
         IN  <<"[Calling tool ">> \o f.name \o <<" with args ">>
                 \o ArgsText(f.arguments) \o <<"]">>
    ELSE LET r == followResps[j \div 2]
         IN  IF IsSome(r.content) THEN Get(r.content) ELSE <<>>

\* Entries 1..j, a single newline between neighbours.
RECURSIVE EntriesText(_)
EntriesText(j) ==
    IF j = 0 THEN <<>>
    ELSE IF j = 1 THEN Entry(1)
    ELSE EntriesText(j - 1) \o <<"\n">> \o Entry(j)

\* C14: for a batch of N >= 1 directives that all succeed processQuery
\* returns exactly 2N entries joined by single newlines: trace line and
\* follow-up text of directive 1, then of directive 2, ...; the content of
\* the first response is not in it.
C14_ReturnedTextAlternates ==
    LET N == Len(FirstCalls)
    IN  (qstatus = "returned" /\ N >= 1) =>
          /\ Len(followResps) = N
          /\ Len(finalText) = 2 * N
          /\ ret = Some(EntriesText(2 * N))

\* Two directives, with and without arguments; the second follow-up response
\* has no content.
C14_Witness ==
    /\ qstatus = "returned"
    /\ Len(FirstCalls) = 2
    /\ FirstCalls[1].function.arguments # None
    /\ FirstCalls[2].function.arguments = None
    /\ followResps[1].content # None
    /\ followResps[2].content = None
    /\ Get(firstResp).content = Some(<<"hello">>)

\* C15: the readline interface opened by chatLoop is closed exactly once on
\* every path that leaves chatLoop (quit, or an error that escapes the loop);
\* it is open while the loop prompts or processes a query, also after a
\* failure inside processQuery.
C15_InputStreamClosedOnce ==
    /\ rlCloseCalls <= 1
    /\ (rl = "closed") <=> (rlCloseCalls = 1)
    /\ pc \in {"prompt", "chat1_wait", "tool_wait", "chat2_wait"} => rl = "open"
    /\ (rl # "none" /\ pc \in {"cleanup_wait", "exited"}) => rl = "closed"

\* The loop was left by a failing line read, after a query that failed.
C15_Witness ==
    /\ pc = "cleanup_wait"
    /\ rl = "closed"
    /\ message = None
    /\ queries >= 1
    /\ console[Len(console)] = "error"

\* The counts and arguments of C16.
C16_OnlyFirstChatHasTools ==
    /\ chatLog # <<>> => chatLog[1].tools = Some(tools)
    /\ \A k \in 2..Len(chatLog) : chatLog[k].tools = None
    /\ Len(toolLog) <= Len(FirstCalls)
    /\ qstatus = "returned" =>
          /\ Len(toolLog) = Len(FirstCalls)
          /\ Len(chatLog) = Len(FirstCalls) + 1

\* C16: only the first chat call of a query carries the tool descriptors,
\* the follow-ups carry none; a directive in a follow-up response is never
\* dispatched, so a query with N directives in its first response makes N
\* tool calls and N+1 chat calls; and a processQuery whose calls all settle
\* comes to its end.
C16_BoundedQuery ==
    /\ []C16_OnlyFirstChatHasTools
    /\ (qstatus = "running") ~> (qstatus # "running")

\* A query returned after one directive although its follow-up response
\* carried a directive of its own.
C16_Witness ==
    /\ qstatus = "returned"
    /\ Len(FirstCalls) = 1
    /\ Len(toolLog) = 1
    /\ Len(chatLog) = 2
    /\ followResps[1].tool_calls # None

\* C17: a directive is dispatched whatever its name: the directive the loop
\* is at has been sent to callTool with its name and arguments, also when
\* the name is not among the stored descriptors; a tool failure is always
\* the rejection of a call that was sent.
C17_NoValidationBeforeDispatch ==
    /\ (qstatus \in {"running", "returned", "threw"} /\ idx >= 1) =>
          /\ idx <= Len(FirstCalls)
          /\ Len(toolLog) = idx
          /\ toolLog[idx] = FirstCalls[idx].function
    /\ (qstatus = "threw" /\ errKind = "tool") =>
          /\ idx >= 1
          /\ Len(toolResults) = idx - 1

\* A tool that was never advertised has been called and has answered.
C17_Witness ==
    /\ pc = "chat2_wait"
    /\ tools # <<>>
    /\ toolLog[Len(toolLog)].name = <<"tX">>
    /\ \A i \in 1..Len(tools) : tools[i].function.name # <<"tX">>
    /\ Len(toolResults) = Len(toolLog)

\* C18: with an argument given, the process ends by process.exit(0) only
\* after mcp.close has been called and has completed; without one, only the
\* usage line is printed: no connection, no loop, no cleanup, no explicit
\* exit.
C18_ExitAfterCleanup ==
    /\ (pc = "exited") <=> (exitCode = Some(0))
    /\ pc = "exited" =>
          /\ argc >= 3
          /\ closeCalls = 1
          /\ pending["close"] = 0
    /\ pc = "cleanup_wait" =>
          /\ exitCode = None
          /\ pending["close"] = 1
    /\ (argc < 3 /\ pc # "start") =>
          /\ pc = "returned"
          /\ console = <<"usage">>
          /\ transport = None
          /\ connectCalls = 0
          /\ listCalls = 0
          /\ rl = "none"
          /\ closeCalls = 0
          /\ exitCode = None

\* The process has exited with code 0 after a failed tool listing.
C18_Witness ==
    /\ pc = "exited"
    /\ exitCode = Some(0)
    /\ connectResult = "list_failed"

\* C19: the history passed to the k-th chat call of a query (the first call
\* and the follow-ups) is the user message followed by the tool messages of
\* directives 1..k-1, in order and nothing else: no assistant message, and
\* the history of each call is that of the call before plus one message.
C19_HistoryShape ==
    /\ \A k \in 1..Len(chatLog) :
          LET h == chatLog[k].messages
          IN  /\ Len(h) = k
              /\ h[1] = [role |-> "user", content |-> line]
              /\ \A j \in 2..k : h[j] = ToolMessage(j - 1)
              /\ \A j \in 1..k : h[j].role # "assistant"
              /\ k > 1 => chatLog[k - 1].messages = SubSeq(h, 1, k - 1)
    /\ chatLog # <<>> =>
          /\ Len(messages) = Len(chatLog)
          /\ messages = chatLog[Len(chatLog)].messages

\* The second follow-up call of a batch has been issued, after a first
\* follow-up response that had a text.
C19_Witness ==
    /\ Len(chatLog) = 3
    /\ Len(chatLog[3].messages) = 3
    /\ followResps[1].content # None

\* C20: listTools is issued only once the connection attempt has completed,
\* and a failed connection attempt is seen by the error handler of
\* connectToServer: connectToServer fails and logs it.
C20_ListToolsAfterConnect ==
    /\ pending["listTools"] = 1 => connState = "connected"
    /\ connState = "failed" =>
          /\ connectResult \notin {"pending", "ok"}
          /\ \E i \in 1..Len(console) : console[i] = "failed_connect"

====
